---------------------------- MODULE Spec2Model ----------------------------
(***************************************************************************)
(* A model of the webhook-sentry egress proxy (package main).              *)
(*                                                                         *)
(* The forward handler ProxyHTTPHandler.ServeHTTP, doProxy, the safeDialer *)
(* (resolveIPPort, DialContext, DialTLSContext), mapError and the header   *)
(* helpers are translated from the current source of the proxy; the        *)
(* earlier proxy.go is the same program before reason codes were added.    *)
(*                                                                         *)
(* Go strings are sequences of one-character strings, so that prefix       *)
(* tests, substring search, case folding and replacement are computed.     *)
(* Unsigned 32-bit arithmetic is scaled to UintBits bits.                  *)
(***************************************************************************)
EXTENDS Integers, Sequences, FiniteSets, TLC

VARIABLES
    cfg,          \* ProxyConfig as held by the handler and the safeDialer
    req,          \* the inbound *http.Request: method, RequestURI, Header
    pc,           \* position of the handler goroutine
    outReq,       \* the outbound request handed to the transport
    err,          \* the error returned by doProxy / RoundTrip
    ips,          \* the resolver's answer of this request
    chosenIP,     \* resolveIPPort's chosenIP
    resp,         \* the origin's *http.Response
    w,            \* the http.ResponseWriter towards the caller
    responseCode, \* ServeHTTP's local responseCode
    errorCode,    \* ServeHTTP's local errorCode
    io,           \* what the request did on the network
    logs,         \* proxy log, access log and histogram
    ret,          \* return value of the function a function-level spec applies
    inbound,      \* the listener's inbound connections and their counter
    tunnel        \* a CONNECT tunnel: its two sockets and its two copy loops

vars == <<cfg, req, pc, outReq, err, ips, chosenIP, resp, w, responseCode,
          errorCode, io, logs, ret, inbound, tunnel>>

(***************************************************************************)
(* Strings                                                                 *)
(***************************************************************************)
UpperLetters == <<"A","B","C","D","E","F","G","H","I","J","K","L","M",
                  "N","O","P","Q","R","S","T","U","V","W","X","Y","Z">>
LowerLetters == <<"a","b","c","d","e","f","g","h","i","j","k","l","m",
                  "n","o","p","q","r","s","t","u","v","w","x","y","z">>

IsUpper(c) == \E i \in DOMAIN UpperLetters : UpperLetters[i] = c
IsLower(c) == \E i \in DOMAIN LowerLetters : LowerLetters[i] = c
IsLetter(c) == IsUpper(c) \/ IsLower(c)
IsDigit(c) == c \in {"0","1","2","3","4","5","6","7","8","9"}

ToLowerCh(c) ==
    IF IsUpper(c)
    THEN LowerLetters[CHOOSE i \in DOMAIN UpperLetters : UpperLetters[i] = c]
    ELSE c
ToUpperCh(c) ==
    IF IsLower(c)
    THEN UpperLetters[CHOOSE i \in DOMAIN LowerLetters : LowerLetters[i] = c]
    ELSE c

\* strings.ToLower
ToLower(s) == [i \in DOMAIN s |-> ToLowerCh(s[i])]

\* strings.EqualFold with exact comparison instead of folding
EqualFoldExact(a, b) == a = b

\* strings.EqualFold (ASCII)
EqualFold(a, b) ==
    /\ Len(a) = Len(b)
    /\ \A i \in DOMAIN a : ToLowerCh(a[i]) = ToLowerCh(b[i])

\* strings.HasPrefix
HasPrefix(s, p) == Len(s) >= Len(p) /\ SubSeq(s, 1, Len(p)) = p

\* strings.Index, 1-based; 0 when sub does not occur in s
Index(s, sub) ==
    LET hits == {i \in 1..(Len(s) - Len(sub) + 1) :
                    SubSeq(s, i, i + Len(sub) - 1) = sub}
    IN IF hits = {} THEN 0 ELSE CHOOSE i \in hits : \A j \in hits : i <= j

\* strings.Contains
Contains(s, sub) == Index(s, sub) > 0

\* strings.Count of a one-character separator
Count(s, c) == Cardinality({i \in DOMAIN s : s[i] = c})

\* strings.Replace(s, old, new, 1)
ReplaceFirst(s, old, new) ==
    LET i == Index(s, old)
    IN IF i = 0 THEN s
       ELSE SubSeq(s, 1, i - 1) \o new \o SubSeq(s, i + Len(old), Len(s))

s_http == <<"h","t","t","p">>
s_https == <<"h","t","t","p","s">>
s_false == <<"f","a","l","s","e">>
s_zero == <<"0">>
s_tls == <<"t","l","s",":">>
s_connect == <<"c","o","n","n","e","c","t",":">>
s_XWhsentry == <<"X","-","W","h","s","e","n","t","r","y">>
s_XWhsentryTls == <<"X","-","W","h","s","e","n","t","r","y","-","T","l","s">>
s_XWhsentryClientcert ==
    <<"X","-","W","h","s","e","n","t","r","y","-","C","l","i","e","n","t","c","e","r","t">>
s_Connection == <<"C","o","n","n","e","c","t","i","o","n">>
s_ProxyConnection ==
    <<"P","r","o","x","y","-","C","o","n","n","e","c","t","i","o","n">>
s_UserAgent == <<"U","s","e","r","-","A","g","e","n","t">>
s_WebhookSentry ==
    <<"W","e","b","h","o","o","k"," ","S","e","n","t","r","y","/","0",".","1">>

skipHeaders == <<s_Connection, s_ProxyConnection, s_UserAgent>>

(***************************************************************************)
(* Headers                                                                 *)
(***************************************************************************)
\* textproto.CanonicalMIMEHeaderKey, as applied by Header.Add and by the
\* server when it reads the request head
CanonicalMIMEHeaderKey(s) ==
    [i \in DOMAIN s |->
        IF i = 1 \/ s[i - 1] = "-" THEN ToUpperCh(s[i]) ELSE ToLowerCh(s[i])]

\* r.Header: the header map the server hands to ServeHTTP for the header
\* lines on the wire (a sequence of <<name, value>>): keys canonical, the
\* values of one key in wire order.
RECURSIVE ValuesOf(_, _)
ValuesOf(wire, key) ==
    IF wire = <<>> THEN <<>>
    ELSE LET rest == ValuesOf(Tail(wire), key)
         IN IF CanonicalMIMEHeaderKey(Head(wire)[1]) = key
            THEN <<Head(wire)[2]>> \o rest
            ELSE rest

ReadHeader(wire) ==
    [k \in {CanonicalMIMEHeaderKey(wire[i][1]) : i \in DOMAIN wire} |->
        ValuesOf(wire, k)]

\* isTLS reading the wrong polarity: on unless every value is 0/false
isTLSAll(h) ==
    IF s_XWhsentryTls \in DOMAIN h
    THEN LET tlsHeader == h[s_XWhsentryTls]
         IN ~ \A i \in DOMAIN tlsHeader :
                tlsHeader[i] = s_zero \/ EqualFold(tlsHeader[i], s_false)
    ELSE FALSE

\* isTLS
isTLS(h) ==
    IF s_XWhsentryTls \in DOMAIN h
    THEN LET tlsHeader == h[s_XWhsentryTls]
         IN ~ \E i \in DOMAIN tlsHeader :
                tlsHeader[i] = s_zero \/ EqualFold(tlsHeader[i], s_false)
    ELSE FALSE

\* the skip decision without the test of the private prefix
SkipHeaderNoPrefix(name) ==
    \E i \in DOMAIN skipHeaders : name = skipHeaders[i]

\* copyHeaders' skip decision for one header name
SkipHeader(name) ==
    \/ \E i \in DOMAIN skipHeaders : name = skipHeaders[i]
    \/ HasPrefix(name, s_XWhsentry)

\* copyHeaders into the empty header of a new request
copyHeaders(inHeader) ==
    LET kept == {name \in DOMAIN inHeader : ~SkipHeader(name)}
    IN [k \in {CanonicalMIMEHeaderKey(name) : name \in kept} |->
          inHeader[CHOOSE name \in kept : CanonicalMIMEHeaderKey(name) = k]]

(***************************************************************************)
(* URLs                                                                    *)
(***************************************************************************)
\* url.getScheme: the index of the ":" that ends the scheme, 0 when the
\* text has no scheme
IsSchemeChar(c, i) == IsLetter(c) \/ (i > 1 /\ (IsDigit(c) \/ c \in {"+", "-", "."}))

SchemeEnd(raw) ==
    LET stops == {i \in DOMAIN raw : ~IsSchemeChar(raw[i], i)}
    IN IF stops = {} THEN 0
       ELSE LET i == CHOOSE k \in stops : \A j \in stops : k <= j
            IN IF raw[i] = ":" /\ i > 1 THEN i ELSE 0

\* url.Parse as far as the handler and the transport use it: the scheme is
\* lower-cased, the query is cut at the first "?", "//" starts the authority
ParseURL(raw) ==
    LET e == SchemeEnd(raw)
        scheme == IF e = 0 THEN <<>> ELSE ToLower(SubSeq(raw, 1, e - 1))
        rest0 == IF e = 0 THEN raw ELSE SubSeq(raw, e + 1, Len(raw))
        q == Index(rest0, <<"?">>)
        rest == IF q = 0 THEN rest0 ELSE SubSeq(rest0, 1, q - 1)
        query == IF q = 0 THEN <<>> ELSE SubSeq(rest0, q + 1, Len(rest0))
    IN IF scheme # <<>> /\ ~HasPrefix(rest, <<"/">>)
       THEN [scheme |-> scheme, opaque |-> rest, host |-> <<>>,
             path |-> <<>>, query |-> query]
       ELSE IF scheme # <<>> /\ HasPrefix(rest, <<"/", "/">>)
       THEN LET auth == SubSeq(rest, 3, Len(rest))
                s == Index(auth, <<"/">>)
            IN [scheme |-> scheme, opaque |-> <<>>,
                host |-> IF s = 0 THEN auth ELSE SubSeq(auth, 1, s - 1),
                path |-> IF s = 0 THEN <<>> ELSE SubSeq(auth, s, Len(auth)),
                query |-> query]
       ELSE [scheme |-> scheme, opaque |-> <<>>, host |-> <<>>,
             path |-> rest, query |-> query]

\* IsAbs taking every URI for absolute
IsAbsAlways(u) == TRUE

\* URL.IsAbs
IsAbs(u) == u.scheme # <<>>

(***************************************************************************)
(* Error values and the reason-code taxonomy                               *)
(***************************************************************************)
BlockedIPAddress == "1000"
UnableToResolveIP == "1001"
InvalidRequestURI == "1002"
InvalidUrlScheme == "1003"
RequestTimedOut == "1004"
TLSHandshakeError == "1005"
TCPConnectionError == "1006"
CertificateValidationError == "1007"
ResponseTooLarge == "1008"
InternalServerError == "1009"
ClientCertNotFoundError == "1010"

StatusBadRequest == 400
StatusForbidden == 403
StatusMethodNotAllowed == 405
StatusInternalServerError == 500
StatusBadGateway == 502

\* An error value: its dynamic type, the fields of a proxyError, what its
\* Timeout method says, and the text of the cause a net.OpError wraps.
Error(type, statusCode, code, message, timeout, wrapped) ==
    [type |-> type, statusCode |-> statusCode, errorCode |-> code,
     message |-> message, timeout |-> timeout, wrapped |-> wrapped]

NoError == Error("nil", 0, "", "", FALSE, <<>>)

\* &proxyError{statusCode, message, errorCode}
proxyError(statusCode, message, code) ==
    Error("proxyError", statusCode, code, message, FALSE, <<>>)

DNSError(timeout) == Error("net.DNSError", 0, "", "lookup failed", timeout, <<>>)
OpError(timeout, wrapped) == Error("net.OpError", 0, "", "net op", timeout, wrapped)
URLError(timeout) == Error("url.Error", 0, "", "url error", timeout, <<>>)
DeadlineExceeded == Error("context.DeadlineExceeded", 0, "", "deadline", TRUE, <<>>)
X509Error(type) == Error(type, 0, "", "x509", FALSE, <<>>)
OtherError(type) == Error(type, 0, "", "other", FALSE, <<>>)

X509Types == {"x509.CertificateInvalidError", "x509.HostnameError",
              "x509.UnknownAuthorityError"}

\* the dynamic types that implement net.Error (Timeout and Temporary)
NetErrorTypes == {"net.DNSError", "net.OpError", "url.Error",
                  "context.DeadlineExceeded"}

\* mapNetOpError testing the connect cause before the TLS cause
mapNetOpErrorConnectFirst(e) ==
    IF Contains(e.wrapped, s_connect)
    THEN <<StatusBadGateway, TCPConnectionError, "TCP connection error">>
    ELSE IF Contains(e.wrapped, s_tls)
    THEN <<StatusBadGateway, TLSHandshakeError, "TLS handshake error">>
    ELSE <<StatusInternalServerError, InternalServerError, "Internal Server Error">>

\* mapNetOpError
mapNetOpError(e) ==
    IF Contains(e.wrapped, s_tls)
    THEN <<StatusBadGateway, TLSHandshakeError, "TLS handshake error">>
    ELSE IF Contains(e.wrapped, s_connect)
    THEN <<StatusBadGateway, TCPConnectionError, "TCP connection error">>
    ELSE <<StatusInternalServerError, InternalServerError, "Internal Server Error">>

\* mapError: the type switch takes the first case the value's type matches
mapError(e) ==
    IF e.type = "proxyError"
    THEN <<e.statusCode, e.errorCode, e.message>>
    ELSE IF e.type = "net.DNSError"
    THEN <<StatusBadGateway, UnableToResolveIP, e.message>>
    ELSE IF e.type \in NetErrorTypes
    THEN IF e.timeout
         THEN <<StatusBadGateway, RequestTimedOut, "Request to target timed out">>
         ELSE IF e.type = "net.OpError"
         THEN mapNetOpError(e)
         ELSE <<StatusInternalServerError, InternalServerError, "Internal Server Error">>
    ELSE IF e.type \in X509Types
    THEN <<StatusBadGateway, CertificateValidationError, e.message>>
    ELSE <<StatusInternalServerError, InternalServerError, "Internal Server Error">>

(***************************************************************************)
(* doProxy                                                                 *)
(***************************************************************************)
NoRequest ==
    [method |-> "", uri |-> <<>>, url |-> ParseURL(<<>>), header |-> <<>>,
     hasCert |-> FALSE, certAlias |-> <<>>]

\* var outboundUri = r.RequestURI; rewritten when the TLS hint is on
OutboundURI(r) ==
    IF isTLS(r.header) THEN ReplaceFirst(r.uri, s_http, s_https) ELSE r.uri

\* the header of the outbound request when User-Agent is not overridden
OutboundHeaderKeepAgent(r) ==
    LET h == copyHeaders(r.header)
    IN [k \in DOMAIN h \cup (DOMAIN r.header \cap {s_UserAgent}) |->
            IF k = s_UserAgent THEN r.header[k] ELSE h[k]]

\* copyHeaders(r.Header, outboundRequest.Header), then the fixed User-Agent
OutboundHeader(r) ==
    LET h == copyHeaders(r.header)
    IN [k \in DOMAIN h \cup {s_UserAgent} |->
            IF k = s_UserAgent THEN <<s_WebhookSentry>> ELSE h[k]]

\* doProxy up to the call of RoundTrip: the error it returns itself, or the
\* request it hands to the transport
doProxy(r) ==
    LET url == ParseURL(r.uri)
    IN IF ~IsAbs(url)
       THEN [err |-> proxyError(StatusBadRequest, "Request URI must be absolute",
                                InvalidRequestURI),
             outReq |-> NoRequest]
       ELSE IF url.scheme # s_http
       THEN [err |-> proxyError(StatusBadRequest, "URL scheme must be HTTP",
                                InvalidUrlScheme),
             outReq |-> NoRequest]
       ELSE LET clientCert == IF s_XWhsentryClientcert \in DOMAIN r.header
                              THEN r.header[s_XWhsentryClientcert] ELSE <<>>
                ok == Len(clientCert) > 0
            IN [err |-> NoError,
                outReq |-> [method |-> r.method,
                            uri |-> OutboundURI(r),
                            url |-> ParseURL(OutboundURI(r)),
                            header |-> OutboundHeader(r),
                            hasCert |-> ok,
                            certAlias |-> IF ok THEN clientCert[1] ELSE <<>>]]

(***************************************************************************)
(* IP addresses and the deny-list                                          *)
(***************************************************************************)
\* A net.IP is its byte sequence: 4 bytes (IPv4len), or 16 bytes (IPv6len).

\* IP.To4: the 4-byte form of an IPv4 or IPv4-mapped address, <<>> for nil
To4(ip) ==
    IF Len(ip) = 4 THEN ip
    ELSE IF /\ Len(ip) = 16
            /\ \A i \in 1..10 : ip[i] = 0
            /\ ip[11] = 255 /\ ip[12] = 255
    THEN SubSeq(ip, 13, 16)
    ELSE <<>>

DecDigits == <<"0","1","2","3","4","5","6","7","8","9">>
HexDigits == <<"0","1","2","3","4","5","6","7","8","9","a","b","c","d","e","f">>

RECURSIVE Itoa(_)
Itoa(n) == IF n < 10 THEN <<DecDigits[n + 1]>>
           ELSE Itoa(n \div 10) \o <<DecDigits[(n % 10) + 1]>>

RECURSIVE AppendHex(_)
AppendHex(n) == IF n < 16 THEN <<HexDigits[n + 1]>>
                ELSE AppendHex(n \div 16) \o <<HexDigits[(n % 16) + 1]>>

\* the 16-bit groups of a 16-byte address
Group(ip, g) == ip[2 * g - 1] * 256 + ip[2 * g]

\* the longest run of zero groups, as <<first, one past last>>; <<0, 0>> when
\* no run is longer than one group
ZeroRun(ip) ==
    LET runs == {r \in (1..8) \X (2..9) :
                    /\ r[1] < r[2]
                    /\ \A g \in r[1]..(r[2] - 1) : Group(ip, g) = 0
                    /\ (r[2] = 9 \/ Group(ip, r[2]) # 0)}
        long == {r \in runs : r[2] - r[1] >= 2}
    IN IF long = {} THEN <<0, 0>>
       ELSE CHOOSE r \in long :
              \A o \in long : \/ r[2] - r[1] > o[2] - o[1]
                              \/ (r[2] - r[1] = o[2] - o[1] /\ r[1] <= o[1])

RECURSIVE String6(_, _, _)
String6(ip, g, run) ==
    IF g > 8 THEN <<>>
    ELSE IF g = run[1]
    THEN <<":", ":">> \o
         (IF run[2] > 8 THEN <<>>
          ELSE AppendHex(Group(ip, run[2])) \o String6(ip, run[2] + 1, run))
    ELSE (IF g > 1 THEN <<":">> ELSE <<>>) \o AppendHex(Group(ip, g))
         \o String6(ip, g + 1, run)

\* IP.String
IPString(ip) ==
    IF Len(ip) = 0 THEN <<"<", "n", "i", "l", ">">>
    ELSE IF Len(To4(ip)) = 4
    THEN LET p == To4(ip)
         IN Itoa(p[1]) \o <<".">> \o Itoa(p[2]) \o <<".">> \o Itoa(p[3])
            \o <<".">> \o Itoa(p[4])
    ELSE String6(ip, 1, ZeroRun(ip))

\* b & m for a byte b and the mask byte with ones leading one-bits
RECURSIVE Pow2(_)
Pow2(n) == IF n = 0 THEN 1 ELSE 2 * Pow2(n - 1)

MaskByte(b, ones) == (b \div Pow2(8 - ones)) * Pow2(8 - ones)

\* the number of one-bits of byte i of net.CIDRMask(ones, _)
OnesOfByte(ones, i) ==
    LET left == ones - 8 * (i - 1)
    IN IF left >= 8 THEN 8 ELSE IF left <= 0 THEN 0 ELSE left

\* IPNet.Contains for n = [ip |-> bytes, ones |-> prefix length]
IPNetContains(n, addr) ==
    LET ip == IF To4(addr) # <<>> THEN To4(addr) ELSE addr
    IN /\ Len(ip) = Len(n.ip)
       /\ \A i \in DOMAIN ip :
            MaskByte(n.ip[i], OnesOfByte(n.ones, i))
              = MaskByte(ip[i], OnesOfByte(n.ones, i))

\* isBlacklisted testing only the first prefix of the list
isBlacklistedFirstOnly(cidrBlacklist, ip) ==
    cidrBlacklist # <<>> /\ IPNetContains(cidrBlacklist[1], ip)

\* isBlacklisted
isBlacklisted(cidrBlacklist, ip) ==
    IF cidrBlacklist = <<>> THEN FALSE
    ELSE \E i \in DOMAIN cidrBlacklist : IPNetContains(cidrBlacklist[i], ip)

\* newSafeDialer: the deny-list is left nil when the skip flag is set
cidrBlacklistOf(config) ==
    IF ~config.insecureSkipCidrDenyList THEN config.cidrDenyList ELSE <<>>

\* the loop of resolveIPPort picking the last address with fewer than two colons
ChooseIPLast(answer) ==
    LET v4 == {i \in DOMAIN answer : Count(IPString(answer[i]), ":") < 2}
    IN IF v4 = {} THEN <<>>
       ELSE answer[CHOOSE i \in v4 : \A j \in v4 : i >= j]

\* the loop of resolveIPPort: the first address whose text has fewer than two
\* colons, <<>> (nil) when there is none
ChooseIP(answer) ==
    LET v4 == {i \in DOMAIN answer : Count(IPString(answer[i]), ":") < 2}
    IN IF v4 = {} THEN <<>>
       ELSE answer[CHOOSE i \in v4 : \A j \in v4 : i <= j]

\* resolveIPPort after the lookup returned answer: the error, and chosenIP
resolveIPPort(cidrBlacklist, answer) ==
    LET ip == ChooseIP(answer)
    IN IF ip = <<>>
       THEN [err |-> proxyError(StatusBadRequest,
                                "Target did not resolve to a valid IPv4 address",
                                UnableToResolveIP),
             ip |-> <<>>]
       ELSE IF isBlacklisted(cidrBlacklist, ip)
       THEN [err |-> proxyError(StatusForbidden, "IP is blocked", BlockedIPAddress),
             ip |-> ip]
       ELSE [err |-> NoError, ip |-> ip]

(***************************************************************************)
(* The response towards the caller                                         *)
(***************************************************************************)
ReasonCodeHeader ==
    <<"X","-","W","h","S","e","n","t","r","y","-","R","e","a","s","o","n","C","o","d","e">>
ReasonHeader ==
    <<"X","-","W","h","S","e","n","t","r","y","-","R","e","a","s","o","n">>
s_ContentType == <<"C","o","n","t","e","n","t","-","T","y","p","e">>
s_XContentTypeOptions ==
    <<"X","-","C","o","n","t","e","n","t","-","T","y","p","e","-","O","p","t","i","o","n","s">>
s_TransferEncoding ==
    <<"T","r","a","n","s","f","e","r","-","E","n","c","o","d","i","n","g">>
s_SetCookie == <<"S","e","t","-","C","o","o","k","i","e">>

\* http.Header.Add
HeaderAdd(h, key, value) ==
    LET k == CanonicalMIMEHeaderKey(key)
    IN [n \in DOMAIN h \cup {k} |->
          IF n = k THEN (IF k \in DOMAIN h THEN Append(h[k], value) ELSE <<value>>)
          ELSE h[n]]

\* http.Header.Set
HeaderSet(h, key, value) ==
    LET k == CanonicalMIMEHeaderKey(key)
    IN [n \in DOMAIN h \cup {k} |-> IF n = k THEN <<value>> ELSE h[n]]

\* a fresh http.ResponseWriter: no status line written, no header, no body,
\* the response not ended
NewResponseWriter ==
    [status |-> 0, header |-> <<>>, wroteHeader |-> 0, body |-> <<>>,
     errorBody |-> FALSE, finished |-> ""]

\* the handler returns without having hijacked or closed the connection and
\* the server ends the response: it closes the connection when the write to
\* it failed or fewer bytes were written than the Content-Length relayed
\* from the origin declares; else it ends the body in the regular way (the
\* last chunk of a chunked body) and the caller has a complete response
finishRequest(rw, declared, writeFailed) ==
    [rw EXCEPT !.finished =
        IF writeFailed \/ (~rw.errorBody /\ declared >= 0 /\ Len(rw.body) # declared)
        THEN "closed" ELSE "complete"]

\* a Write that sends only the last byte it is given
ResponseWriteLastByte(rw, p) ==
    [rw EXCEPT !.body = Append(@, p[Len(p)]),
               !.status = IF rw.wroteHeader = 0 THEN 200 ELSE @,
               !.wroteHeader = IF @ = 0 THEN 1 ELSE @]

\* ResponseWriter.Write: the bytes follow the head, which an unwritten head
\* precedes as 200
ResponseWrite(rw, p) ==
    [rw EXCEPT !.body = @ \o p,
               !.status = IF rw.wroteHeader = 0 THEN 200 ELSE @,
               !.wroteHeader = IF @ = 0 THEN 1 ELSE @]

\* http.Error
HttpError(rw, message, code) ==
    [rw EXCEPT !.header = HeaderSet(HeaderSet(rw.header, s_ContentType, "text/plain"),
                                    s_XContentTypeOptions, "nosniff"),
               !.status = IF rw.wroteHeader = 0 THEN code ELSE rw.status,
               !.wroteHeader = rw.wroteHeader + 1,
               !.errorBody = TRUE]

\* sendHTTPError that forgets the reason-code header
sendHTTPErrorNoCode(rw, statusCode, code, errorMessage) ==
    HttpError([rw EXCEPT !.header = HeaderAdd(rw.header, ReasonHeader, errorMessage)],
              errorMessage, statusCode)

\* sendHTTPError
sendHTTPError(rw, statusCode, code, errorMessage) ==
    HttpError([rw EXCEPT !.header =
                 HeaderAdd(HeaderAdd(rw.header, ReasonCodeHeader, code),
                           ReasonHeader, errorMessage)],
              errorMessage, statusCode)

\* the error response sent whether or not an error code is set
sendErrorAlways(rw, statusCode, code, errorMessage) ==
    sendHTTPError(rw, statusCode, code, errorMessage)

\* ServeHTTP: if errorCode != "" { sendHTTPError(...) }
sendErrorIfAny(rw, statusCode, code, errorMessage) ==
    IF code # "" THEN sendHTTPError(rw, statusCode, code, errorMessage) ELSE rw

RECURSIVE AddAll(_, _, _)
AddAll(h, key, values) ==
    IF values = <<>> THEN h
    ELSE AddAll(HeaderAdd(h, key, Head(values)), key, Tail(values))

\* writeResponseHeaders: Set the first value of every origin header, Add the
\* others, re-emit Transfer-Encoding, then write the status line
writeResponseHeaders(rw, r) ==
    LET copied == [k \in DOMAIN rw.header \cup DOMAIN r.header |->
                      IF k \in DOMAIN r.header THEN r.header[k] ELSE rw.header[k]]
    IN [rw EXCEPT !.header = AddAll(copied, s_TransferEncoding, r.transferEncoding),
                  !.status = IF rw.wroteHeader = 0 THEN r.status ELSE rw.status,
                  !.wroteHeader = rw.wroteHeader + 1]

(***************************************************************************)
(* Bounds and inputs                                                       *)
(***************************************************************************)
\* uint32 is scaled to UintBits bits
UintBits == 3
Uint32Mod == Pow2(UintBits)
Uint32(n) == n % Uint32Mod

\* the 512-byte buffer of writeResponseBody, scaled
BufSize == 2
\* the longest resolver answer
MaxIPs == 2
\* the most header lines of a request, the most values of one header
MaxHeaders == 2
MaxValues == 2
\* the most reads of the response body that return no byte and no error
MaxEmptyReads == 1

ip_loopback == <<127, 0, 0, 1>>
ip_public == <<93, 184, 216, 34>>
ip_v6 == <<32, 1, 13, 184, 0, 0, 0, 0, 0, 0, 0, 0, 0, 0, 0, 1>>
ip_mapped == <<0, 0, 0, 0, 0, 0, 0, 0, 0, 0, 255, 255, 127, 0, 0, 1>>
IPs == {ip_loopback, ip_public, ip_v6, ip_mapped}

RECURSIVE SeqsUpTo(_, _)
SeqsUpTo(S, n) ==
    IF n = 0 THEN {<<>>}
    ELSE LET shorter == SeqsUpTo(S, n - 1)
         IN shorter \cup {Append(q, x) : q \in shorter, x \in S}

\* what LookupIPAddr can answer without an error: at least one address
Answers == SeqsUpTo(IPs, MaxIPs) \ {<<>>}

cidr_loopback == [ip |-> <<127, 0, 0, 0>>, ones |-> 8]
cidr_near == [ip |-> <<93, 184, 216, 36>>, ones |-> 30]

alias_a == <<"a">>
alias_default == <<"d","e","f","a","u","l","t">>
alias_missing == <<"z","z">>

MaxBodySmall == 1
MaxBodyLarge == (Uint32Mod \div 2) + 1
\* the largest limit a uint32 holds
MaxBodyHuge == Uint32Mod - 1

\* the configurations: the deny-list enforced with one prefix and with two,
\* and switched off; three body limits; without and with a MITM issuer; a
\* certificate store with and without an entry under "default"
Configs ==
    {[insecureSkipCidrDenyList |-> d[1], cidrDenyList |-> d[2],
      maxContentLength |-> d[3], clientCerts |-> d[5],
      mitmer |-> d[4]] :
        d \in {<<FALSE, <<cidr_loopback>>, MaxBodySmall, FALSE,
                 {alias_a, alias_default}>>,
               <<FALSE, <<cidr_near, cidr_loopback>>, MaxBodyLarge, FALSE,
                 {alias_a, alias_default}>>,
               <<TRUE, <<cidr_loopback>>, MaxBodyHuge, TRUE, {alias_a}>>}}

uri_http == <<"h","t","t","p",":","/","/","h","/","x">>
uri_HTTP == <<"H","T","T","P",":","/","/","h","/","x">>
uri_Http_http == <<"H","t","t","p",":","/","/","h","/","h","t","t","p">>
uri_https == <<"h","t","t","p","s",":","/","/","h","/","x">>
uri_path == <<"/","x">>
uri_ftp == <<"f","t","p",":","/","/","h","/">>
uri_query == <<"h","t","t","p",":","/","/","h","/","?","u","=","h","t","t","p">>
uri_opaque == <<"h",":","8","0">>
uri_star == <<"*">>
uri_host_http == <<"h","t","t","p",":","/","/","h","t","t","p","/">>
uri_connect == <<"h",":","4","4","3">>
uri_connect_loopback == <<"1","2","7",".","0",".","0",".","1",":","2","2">>

v_1 == <<"1">>
v_true == <<"t","r","u","e">>
v_FALSE == <<"F","A","L","S","E">>
v_False == <<"F","a","l","s","e">>
v_00 == <<"0","0">>
v_no == <<"n","o">>
v_empty == <<>>

\* the request the server hands to ServeHTTP for a request line and the
\* header lines on the wire
Request(method, uri, wire) ==
    [method |-> method, uri |-> uri, wire |-> wire, header |-> ReadHeader(wire)]

\* the requests of the whole-handler specification
Requests ==
    {Request("GET", u, h) :
        u \in {uri_http, uri_HTTP},
        h \in {<<>>,
               << <<s_XWhsentryTls, v_1>> >>,
               << <<s_XWhsentryTls, v_1>>, <<s_XWhsentryClientcert, alias_a>> >>,
               << <<s_XWhsentryTls, v_1>>, <<s_XWhsentryClientcert, alias_missing>> >>,
               << <<s_XWhsentryTls, v_1>>, <<s_XWhsentryClientcert, v_empty>> >>,
               << <<s_XWhsentryClientcert, alias_missing>> >>}}
    \cup {Request("POST", u, h) :
            u \in {uri_path, uri_star, uri_ftp, uri_https, uri_opaque},
            h \in {<<>>, << <<s_XWhsentryTls, v_1>> >>}}
    \cup {Request("CONNECT", u, <<>>) : u \in {uri_connect, uri_connect_loopback}}

NoResponse ==
    [status |-> 0, contentLength |-> 0, header |-> <<>>, transferEncoding |-> <<>>,
     bodyLen |-> 0]

\* the declared Content-Length values tried against max
ContentLengths(max) ==
    {0, max, max + 1, Uint32Mod - 1, Uint32Mod, Uint32Mod + max,
     Uint32Mod + max + 1}

\* the responses an origin can send: a declared length and as many body
\* bytes, or a chunked body of unknown length (ContentLength -1)
Responses(max) ==
    {[status |-> sh[1], contentLength |-> n, header |-> sh[2],
      transferEncoding |-> <<>>, bodyLen |-> n] :
        n \in ContentLengths(max),
        sh \in {<<200, [k \in {s_SetCookie} |-> <<"a", "b">>] >>}}
    \cup
    {[status |-> 404, contentLength |-> 0, header |-> <<>>,
      transferEncoding |-> <<>>, bodyLen |-> 0]}
    \cup
    {[status |-> 200, contentLength |-> -1, header |-> <<>>,
      transferEncoding |-> <<"chunked">>, bodyLen |-> n] :
        n \in {0, max, max + 1}}

\* resp.Body: the bytes the origin sends, numbered
Body(r) == [i \in 1..r.bodyLen |-> i]

\* no Read has returned bytes that wait to be written
NoPending == [n |-> 0, e |-> "nil"]

\* the I/O of one request: lookups, dials, handshakes, the certificate
\* offered, the reads of the body and the counter of writeResponseBody, the
\* chunk read and not yet written, the idle timer (armed; the reads, told by
\* n > 0, after which it was reset), the deferred close of the body; and of
\* the transport: the outbound connections it has dialed, each with the
\* number of requests sent over it, and the requests served before this one
NoIO ==
    [lookups |-> 0, dials |-> <<>>, handshakes |-> 0, offered |-> <<>>,
     bodyRead |-> FALSE, bodyBytes |-> 0, bytesReadSoFar |-> 0, emptyReads |-> 0,
     pending |-> NoPending, timerArmed |-> FALSE, resetAfter |-> {},
     bodyClosed |-> FALSE, conns |-> <<>>, requests |-> 0]

NoLogs == [proxy |-> <<>>, access |-> <<>>, histogram |-> <<>>]

\* the listener's counter of inbound connections: an unsigned 32-bit word
\* moved by atomic.AddUint32 (a gauge moved by Inc and Dec in the current
\* source, the same numbers as long as the counter does not wrap)
incrementInboundConns(n) == Uint32(n + 1)

decrementInboundConns(n) == Uint32(n + (Uint32Mod - 1))

\* connStateCallback with a StateClosed that is not counted
connStateCallbackNewOnly(n, connState) ==
    IF connState = "StateNew" THEN incrementInboundConns(n) ELSE n

\* connStateCallback, as a function of the counter
connStateCallback(n, connState) ==
    IF connState = "StateNew" THEN incrementInboundConns(n)
    ELSE IF connState = "StateClosed" THEN decrementInboundConns(n)
    ELSE n

\* connections one listener accepts in a run
MaxConns == 3
ConnIds == 1..MaxConns

\* a connection the listener has not accepted yet; before and peers are the
\* counter and the counted connections as StateNew found them (history, read
\* by no action)
NoConn == [state |-> "none", before |-> 0, peers |-> {}]

NoInbound == [conns |-> [c \in ConnIds |-> NoConn], counter |-> 0]

\* rawProxy: buf := make([]byte, 2048), scaled
RawBufSize == 2

\* bytes each end of a tunnel sends at most
MaxTunnelBytes == 3

\* a rawProxy not started: the bytes it has read from its inConn, the chunk
\* of the last Read and whether that Read returned an error, and the bytes
\* it has written to its outConn
NoLoop == [pc |-> "idle", got |-> 0, chunk |-> 0, failed |-> FALSE, relayed |-> <<>>]

\* no CONNECT handled yet; loop.up is go rawProxy(inboundConn, outboundConn),
\* loop.down the rawProxy(outboundConn, inboundConn) handleConnect calls
NoTunnel ==
    [handler |-> "idle",
     sock |-> [inbound |-> "server", outbound |-> "none"],
     loop |-> [up |-> NoLoop, down |-> NoLoop]]


(***************************************************************************)
(* The forward handler, one request                                        *)
(***************************************************************************)
Init ==
    /\ cfg \in Configs
    /\ req \in Requests
    /\ pc = "ServeHTTP"
    /\ outReq = NoRequest
    /\ err = NoError
    /\ ips = <<>>
    /\ chosenIP = <<>>
    /\ resp = NoResponse
    /\ w = NewResponseWriter
    /\ responseCode = 0
    /\ errorCode = ""
    /\ io = NoIO
    /\ logs = NoLogs
    /\ ret = <<>>
    /\ inbound = NoInbound
    /\ tunnel = NoTunnel

\* a handler that takes every CONNECT for allowed
MitmerIsNilNever(p) == FALSE

\* p.mitmer == nil: no MITM issuer certificate is configured
MitmerIsNil(p) == ~p.mitmer

\* ServeHTTP up to the call of doProxy: CONNECT is refused when no MITM
\* issuer is configured; every other method is proxied
ServeHTTP ==
    /\ pc = "ServeHTTP"
    /\ IF req.method = "CONNECT"
       THEN IF MitmerIsNil(cfg)
            THEN /\ w' = finishRequest(HttpError(w, "CONNECT method not allowed",
                                                 StatusMethodNotAllowed),
                                       -1, FALSE)
                 /\ pc' = "done"
            ELSE /\ pc' = "HandleHttpConnect"
                 /\ UNCHANGED w
       ELSE /\ pc' = "doProxy"
            /\ UNCHANGED w
    /\ UNCHANGED <<tunnel, inbound, cfg, req, outReq, err, ips, chosenIP, resp, responseCode,
                   errorCode, io, logs, ret>>

\* a transport that keeps connections alive
DisableKeepAlivesOff == FALSE

\* http.Transport{DisableKeepAlives: true}
DisableKeepAlives == TRUE

\* Transport.getConn: the idle connection a request can be sent over, 0 for
\* none; with keep-alives disabled no connection is ever taken from the pool
IdleConn(conns, tls) ==
    LET idle == {i \in DOMAIN conns : conns[i].state = "idle" /\ conns[i].tls = tls}
    IN IF DisableKeepAlives \/ idle = {} THEN 0
       ELSE CHOOSE i \in idle : \A j \in idle : i <= j

\* the connection of a finished request: closed with keep-alives disabled or
\* after a failure, else put back into the pool
ReleaseConns(conns, failed) ==
    [i \in DOMAIN conns |->
        IF conns[i].state = "open"
        THEN [conns[i] EXCEPT !.state = IF DisableKeepAlives \/ failed
                                        THEN "closed" ELSE "idle"]
        ELSE conns[i]]

\* doProxy: the precondition checks and the outbound request; RoundTrip then
\* sends it over an idle connection of the transport, or dials through the
\* safeDialer
DoProxy ==
    /\ pc = "doProxy"
    /\ \E r \in {doProxy(req)} :
       \E c \in {IF r.err = NoError
                 THEN IdleConn(io.conns, r.outReq.url.scheme = s_https) ELSE 0} :
          /\ err' = r.err
          /\ outReq' = r.outReq
          /\ io' = IF c = 0 THEN io
                   ELSE [io EXCEPT !.conns[c].state = "open",
                                   !.conns[c].uses = @ + 1]
          /\ pc' = IF r.err # NoError THEN "respond"
                   ELSE IF c = 0 THEN "resolve" ELSE "roundtrip"
    /\ UNCHANGED <<tunnel, inbound, cfg, req, ips, chosenIP, resp, w, responseCode, errorCode,
                   logs, ret>>

\* the transport dials with DialTLSContext for an https URL
UsesTLS == outReq.url.scheme = s_https

\* DialTLSContext without the lookup of the alias
CertAliasErrorNever(dialer, r) == NoError

\* DialTLSContext: an alias carried by the context must be in the store
CertAliasError(dialer, r) ==
    IF r.hasCert /\ r.certAlias \notin dialer.clientCerts
    THEN proxyError(StatusBadRequest, "Cert with alias not found in certificate store",
                    ClientCertNotFoundError)
    ELSE NoError

\* DialTLSContext looking up the alias before it resolves the address
DialTLSContextErrorAliasFirst(resolveError, aliasError) ==
    IF aliasError # NoError THEN aliasError ELSE resolveError

\* DialTLSContext before it dials: the error of resolveIPPort, else that of
\* the lookup of the alias
DialTLSContextError(resolveError, aliasError) ==
    IF resolveError # NoError THEN resolveError ELSE aliasError

\* resolveIPPort (DialContext and DialTLSContext alike): the lookup fails, or
\* answers and one address is chosen and screened; on the TLS path the alias
\* is then looked up
Resolve ==
    /\ pc = "resolve"
    /\ \/ \E timeout \in BOOLEAN :
            /\ err' = DNSError(timeout)
            /\ pc' = "respond"
            /\ UNCHANGED <<ips, chosenIP>>
       \/ \E answer \in Answers :
            LET r == resolveIPPort(cidrBlacklistOf(cfg), answer)
                e == IF UsesTLS
                     THEN DialTLSContextError(r.err, CertAliasError(cfg, outReq))
                     ELSE r.err
            IN /\ ips' = answer
               /\ chosenIP' = r.ip
               /\ err' = e
               /\ pc' = IF e # NoError THEN "respond" ELSE "dial"
    /\ io' = [io EXCEPT !.lookups = @ + 1]
    /\ UNCHANGED <<tunnel, inbound, cfg, req, outReq, resp, w, responseCode, errorCode, logs, ret>>

s_refused == <<"c","o","n","n","e","c","t",":"," ","r","e","f","u","s","e","d">>
s_alert ==
    <<"r","e","m","o","t","e"," ","e","r","r","o","r",":"," ","t","l","s",":"," ","b","a","d"," ","c","e","r","t">>
s_reset == <<"r","e","a","d",":"," ","r","e","s","e","t">>
s_timeout == <<"i","/","o"," ","t","i","m","e","o","u","t">>
s_both == <<"t","l","s",":"," ","c","o","n","n","e","c","t",":"," ","x">>
s_TLS == <<"T","L","S"," ","a","l","e","r","t">>
s_connect_no_colon == <<"c","o","n","n","e","c","t"," ","r","e","f","u","s","e","d">>

\* s.dialer.DialContext(ctx, "tcp4", ipPort): one TCP dial of the chosen
\* address, which connects, times out or is refused; DialContext returns the
\* socket to the transport, DialTLSContext passes it to doTLSHandshake
Dial ==
    /\ pc = "dial"
    /\ \/ /\ err' = NoError
          /\ io' = [io EXCEPT !.dials = Append(@, chosenIP),
                              !.conns = Append(@, [ip |-> chosenIP, tls |-> UsesTLS,
                                                   state |-> IF UsesTLS THEN "handshake"
                                                             ELSE "open",
                                                   uses |-> 1])]
          /\ pc' = IF UsesTLS THEN "handshake" ELSE "roundtrip"
       \/ /\ err' \in {OpError(TRUE, s_timeout), OpError(FALSE, s_refused)}
          /\ io' = [io EXCEPT !.dials = Append(@, chosenIP)]
          /\ pc' = "respond"
    /\ UNCHANGED <<tunnel, inbound, cfg, req, outReq, ips, chosenIP, resp, w, responseCode,
                   errorCode, logs, ret>>

\* doTLSHandshake looking up the alias as it is, the empty one too
OfferedCertNoDefault(dialer, alias) ==
    IF alias \in dialer.clientCerts THEN alias ELSE <<>>

\* doTLSHandshake: the certificate offered is the store's entry for the alias
\* ("default" for the empty alias), the empty certificate when there is none
OfferedCert(dialer, alias) ==
    LET certAlias == IF alias = <<>> THEN alias_default ELSE alias
    IN IF certAlias \in dialer.clientCerts THEN certAlias ELSE <<>>

\* doTLSHandshake: if err := tlsConn.Handshake(); err != nil { return nil, err }
\* returns without a call of conn.Close(): the socket stays open and nobody
\* holds it
HandshakeFailed == "dropped"

\* doTLSHandshake on the socket DialTLSContext dialed: the handshake succeeds
\* and the transport gets the connection, or it fails or runs into the
\* deadline set on the socket
Handshake ==
    /\ pc = "handshake"
    /\ \/ /\ err' = NoError
          /\ io' = [io EXCEPT !.handshakes = @ + 1,
                              !.offered = OfferedCert(cfg, outReq.certAlias),
                              !.conns[Len(io.conns)].state = "open"]
          /\ pc' = "roundtrip"
       \/ /\ err' \in {OpError(FALSE, s_alert), OpError(TRUE, s_timeout),
                       OtherError("tls.RecordHeaderError")}
                      \cup {X509Error(t) : t \in X509Types}
          /\ io' = [io EXCEPT !.handshakes = @ + 1,
                              !.offered = OfferedCert(cfg, outReq.certAlias),
                              !.conns[Len(io.conns)].state = HandshakeFailed]
          /\ pc' = "respond"
    /\ UNCHANGED <<tunnel, inbound, cfg, req, outReq, ips, chosenIP, resp, w, responseCode,
                   errorCode, logs, ret>>

\* the rest of RoundTrip: the response head arrives, or the exchange fails
RoundTrip ==
    /\ pc = "roundtrip"
    /\ \/ /\ resp' \in Responses(cfg.maxContentLength)
          /\ err' = NoError
       \/ /\ err' \in {DeadlineExceeded, OpError(FALSE, s_reset), OtherError("io.EOF")}
          /\ UNCHANGED resp
    /\ pc' = "respond"
    /\ UNCHANGED <<tunnel, inbound, cfg, req, outReq, ips, chosenIP, w, responseCode, errorCode,
                   io, logs, ret>>

\* what mapError and mapNetOpError write to the proxy log
mapErrorLog(e) ==
    LET m == mapError(e)
    IN IF e.type \in X509Types THEN << <<"warning", "Certificate validation error">> >>
       ELSE IF e.type = "net.OpError" /\ ~e.timeout /\ m[2] = TLSHandshakeError
       THEN << <<"warning", "TLS handshake error">> >>
       ELSE IF e.type = "net.OpError" /\ ~e.timeout /\ m[2] = TCPConnectionError
       THEN << <<"warning", "TCP connection error">> >>
       ELSE <<>>

\* resp.ContentLength > 0 && uint32(resp.ContentLength) > p.maxContentLength
TooLarge(r, max) == r.contentLength > 0 /\ Uint32(r.contentLength) > max

\* ServeHTTP after doProxy returned: the error response, the over-long
\* response, or the origin's status line and headers and the start of
\* writeResponseBody, which arms the idle timer
Respond ==
    /\ pc = "respond"
    /\ IF err # NoError
       THEN LET m == mapError(err)
            IN /\ responseCode' = m[1]
               /\ errorCode' = m[2]
               /\ w' = sendErrorIfAny(w, m[1], m[2], m[3])
               /\ logs' = [logs EXCEPT !.proxy = @ \o mapErrorLog(err)]
               /\ pc' = "finish"
               /\ UNCHANGED io
       ELSE IF TooLarge(resp, cfg.maxContentLength)
       THEN /\ responseCode' = StatusBadGateway
            /\ errorCode' = ResponseTooLarge
            /\ w' = sendErrorIfAny(w, StatusBadGateway, ResponseTooLarge,
                                   "Response exceeds max content length")
            /\ pc' = "finish"
            /\ UNCHANGED <<logs, io>>
       ELSE /\ responseCode' = resp.status
            /\ w' = writeResponseHeaders(w, resp)
            /\ io' = [io EXCEPT !.timerArmed = TRUE]
            /\ pc' = "body"
            /\ UNCHANGED <<errorCode, logs>>
    /\ UNCHANGED <<tunnel, inbound, cfg, req, outReq, err, ips, chosenIP, resp, ret>>

\* what the loop of writeResponseBody logs for the error a Read returned
ReadErrorLog(e) ==
    IF e = "Canceled"
    THEN << <<"warning", "Socket idle read time out reached">> >>
    ELSE IF e = "other"
    THEN << <<"warning", "Error occured reading response from target">> >>
    ELSE <<>>

\* a break out of the loop: writeResponseBody returns and ServeHTTP goes on
\* to its test of errorCode
Break(ioAfter, wAfter, entries) ==
    /\ io' = [ioAfter EXCEPT !.pending = NoPending]
    /\ w' = sendErrorIfAny(wAfter, responseCode, errorCode, "")
    /\ logs' = [logs EXCEPT !.proxy = @ \o entries]
    /\ pc' = "finish"

\* the end of an iteration whose Read returned n bytes and e: a break on
\* io.EOF, on context.Canceled and on any other error; otherwise timer.Reset
\* and the next Read
EndIteration(ioAfter, wAfter, n, e) ==
    IF e # "nil"
    THEN Break(ioAfter, wAfter, ReadErrorLog(e))
    ELSE /\ io' = [ioAfter EXCEPT !.pending = NoPending,
                                  !.resetAfter = @ \cup {n > 0}]
         /\ w' = wAfter
         /\ pc' = "body"
         /\ UNCHANGED logs

\* the loop of writeResponseBody up to w.Write: Read returns n bytes and an
\* error (a failed read returns no byte); the bytes are counted, and over
\* the limit the loop breaks
ReadBody ==
    /\ pc = "body"
    /\ \E n \in 0..BufSize, e \in {"nil", "EOF", "Canceled", "other"} :
         LET left == resp.bodyLen - io.bodyBytes
             sofar == IF n > 0 THEN Uint32(io.bytesReadSoFar + n)
                      ELSE io.bytesReadSoFar
             read == [io EXCEPT !.bodyRead = TRUE,
                                !.bodyBytes = @ + n,
                                !.bytesReadSoFar = sofar,
                                !.emptyReads = IF n = 0 THEN @ + 1 ELSE @]
         IN /\ n <= left
            /\ e = "EOF" => n = left
            /\ e = "nil" => (n > 0 /\ n < left)
                            \/ (n = 0 /\ left > 0 /\ io.emptyReads < MaxEmptyReads)
            /\ e \in {"Canceled", "other"} => n = 0
            /\ IF n > 0 /\ sofar > cfg.maxContentLength
               THEN Break(read, w,
                          << <<"warning", "Response body exceeded maximum allowed length">> >>)
               ELSE IF n > 0
               THEN /\ io' = [read EXCEPT !.pending = [n |-> n, e |-> e]]
                    /\ pc' = "write"
                    /\ UNCHANGED <<w, logs>>
               ELSE EndIteration(read, w, n, e)
    /\ UNCHANGED <<tunnel, inbound, cfg, req, outReq, err, ips, chosenIP, resp, responseCode,
                   errorCode, ret>>

\* w.Write(buf[:n]) returns, and the iteration ends: the caller took the
\* bytes, or the inbound socket failed and the loop breaks
WriteBody ==
    /\ pc = "write"
    /\ \E writeErr \in BOOLEAN :
         LET n == io.pending.n
             chunk == SubSeq(Body(resp), io.bodyBytes - n + 1, io.bodyBytes)
         IN IF writeErr
            THEN Break(io, w, << <<"error", "Error writing to inbound socket">> >>)
            ELSE EndIteration(io, ResponseWrite(w, chunk), n, io.pending.e)
    /\ UNCHANGED <<tunnel, inbound, cfg, req, outReq, err, ips, chosenIP, resp, responseCode,
                   errorCode, ret>>

\* logRequest's url: the request URI with "http:" rewritten when the hint is on
LoggedURL(r) ==
    IF isTLS(r.header) THEN ReplaceFirst(r.uri, s_http \o <<":">>, s_https \o <<":">>)
    ELSE r.uri

\* updateMetrics that observes failed requests only
updateMetricsErrorsOnly(histogram, code) ==
    IF code # "" THEN Append(histogram, code) ELSE histogram

\* updateMetrics: one observation under the label error_code
updateMetrics(histogram, code) == Append(histogram, code)

\* the end of ServeHTTP: the error log for 1009, the access log entry, the
\* histogram observation, and the deferred close of the response body, which
\* gives the connection back to the transport; the handler returns and the
\* server ends the response
Finish ==
    /\ pc = "finish"
    /\ logs' = [logs EXCEPT
                  !.proxy = IF errorCode = InternalServerError
                            THEN Append(@, <<"error", "Unexpected error while proxying request">>)
                            ELSE @,
                  !.access = Append(@, [url |-> LoggedURL(req), status |-> responseCode]),
                  !.histogram = updateMetrics(@, errorCode)]
    /\ io' = [io EXCEPT !.bodyClosed = (resp # NoResponse),
                        !.conns = ReleaseConns(@, err # NoError \/ errorCode # "")]
    /\ w' = finishRequest(w, IF resp # NoResponse THEN resp.contentLength ELSE -1,
                          \E i \in DOMAIN logs.proxy :
                              logs.proxy[i] = <<"error", "Error writing to inbound socket">>)
    /\ pc' = "done"
    /\ UNCHANGED <<tunnel, inbound, cfg, req, outReq, err, ips, chosenIP, resp, responseCode,
                   errorCode, ret>>

Next ==
    \/ ServeHTTP
    \/ DoProxy
    \/ Resolve
    \/ Dial
    \/ Handshake
    \/ RoundTrip
    \/ Respond
    \/ ReadBody
    \/ WriteBody
    \/ Finish

Spec == Init /\ [][Next]_vars

(***************************************************************************)
(* The forward handler under its deadlines                                 *)
(***************************************************************************)
\* the steps of a request from the round trip on that return by a deadline
\* at the latest: the lookup, the dial, the round trip and the reads of the
\* body by the request context (context.WithTimeout of
\* outboundConnectionLifetime, and the idle timer), the dial also by
\* dialer.Timeout, the handshake by tlsConn.SetDeadline; Respond and Finish
\* do no I/O that waits.  w.Write is not among them: the http.Server is built
\* without a write timeout and the context is not the inbound socket's.
DeadlineBounded ==
    \/ Resolve
    \/ Dial
    \/ Handshake
    \/ RoundTrip
    \/ Respond
    \/ ReadBody
    \/ Finish

\* forward requests on the plain and on the TLS leg
InitLifetime ==
    /\ Init
    /\ cfg.maxContentLength = MaxBodyLarge
    /\ req.method = "GET"
    /\ req.uri = uri_http
    /\ Len(req.wire) <= 1

SpecLifetime == InitLifetime /\ [][Next]_vars /\ WF_vars(DeadlineBounded)

(***************************************************************************)
(* Successive requests through one transport                               *)
(***************************************************************************)
\* the most requests one handler serves
MaxRequests == 2

\* the forward requests of successive exchanges
ForwardRequests ==
    {r \in Requests : r.method = "GET" /\ r.uri = uri_http /\ Len(r.wire) <= 1}

\* the server calls ServeHTTP for the next request: a new response writer and
\* new locals; the handler's transport is the same
NextRequest ==
    /\ pc = "done"
    /\ io.requests + 1 < MaxRequests
    /\ req' \in ForwardRequests
    /\ pc' = "ServeHTTP"
    /\ outReq' = NoRequest
    /\ err' = NoError
    /\ ips' = <<>>
    /\ chosenIP' = <<>>
    /\ resp' = NoResponse
    /\ w' = NewResponseWriter
    /\ responseCode' = 0
    /\ errorCode' = ""
    /\ logs' = NoLogs
    /\ io' = [NoIO EXCEPT !.conns = io.conns, !.requests = io.requests + 1]
    /\ UNCHANGED <<tunnel, inbound, cfg, ret>>

InitTransport ==
    /\ Init
    /\ cfg.maxContentLength = MaxBodySmall
    /\ req \in ForwardRequests

NextTransport ==
    \/ Next
    \/ NextRequest

SpecTransport == InitTransport /\ [][NextTransport]_vars

(***************************************************************************)
(* The listener's inbound connections                                      *)
(***************************************************************************)
handlerVars == <<cfg, req, pc, outReq, err, ips, chosenIP, resp, w,
                 responseCode, errorCode, io, logs, ret, tunnel>>

Served(c) == inbound.conns[c].state \in {"new", "served"}

\* the connections the server has reported new and not yet closed
Counted == {c \in ConnIds : inbound.conns[c].state \in {"new", "served", "closing"}}

\* the server accepts a connection and reports StateNew
Accept(c) ==
    /\ inbound.conns[c].state = "none"
    /\ inbound' = [conns |-> [inbound.conns EXCEPT
                                 ![c] = [state |-> "new",
                                         before |-> inbound.counter,
                                         peers |-> Counted]],
                   counter |-> connStateCallback(inbound.counter, "StateNew")]
    /\ UNCHANGED handlerVars

\* a handler returns without having hijacked the connection, which stays
\* with the server (StateActive, then StateIdle)
ServeRequest(c) ==
    /\ inbound.conns[c].state = "new"
    /\ inbound' = [conns |-> [inbound.conns EXCEPT ![c].state = "served"],
                   counter |-> connStateCallback(
                                  connStateCallback(inbound.counter,
                                                    "StateActive"),
                                  "StateIdle")]
    /\ UNCHANGED handlerVars

\* writeResponseBody of the earlier handler takes the connection over to
\* stream the body
HijackStream(c) ==
    /\ Served(c)
    /\ inbound' = [conns |-> [inbound.conns EXCEPT ![c].state = "streaming"],
                   counter |-> connStateCallback(inbound.counter,
                                                 "StateHijacked")]
    /\ UNCHANGED handlerVars

\* its deferred function: inboundConn.Close(), then decrementInboundConns
TeardownStream(c) ==
    /\ inbound.conns[c].state = "streaming"
    /\ inbound' = [conns |-> [inbound.conns EXCEPT ![c].state = "torn down"],
                   counter |-> decrementInboundConns(inbound.counter)]
    /\ UNCHANGED handlerVars

\* handleConnect takes the connection over for a tunnel
HijackConnect(c) ==
    /\ Served(c)
    /\ inbound' = [conns |-> [inbound.conns EXCEPT ![c].state = "tunnel"],
                   counter |-> connStateCallback(inbound.counter,
                                                 "StateHijacked")]
    /\ UNCHANGED handlerVars

\* its deferred inboundConn.Close(), when rawProxy returns
TeardownConnect(c) ==
    /\ inbound.conns[c].state = "tunnel"
    /\ inbound' = [inbound EXCEPT !.conns[c].state = "torn down"]
    /\ UNCHANGED handlerVars

\* the socket of a connection the server still owns is closed, by the
\* caller or by the server
CloseConn(c) ==
    /\ Served(c)
    /\ inbound' = [inbound EXCEPT !.conns[c].state = "closing"]
    /\ UNCHANGED handlerVars

\* the server's goroutine of the connection reports StateClosed
ConnClosed(c) ==
    /\ inbound.conns[c].state = "closing"
    /\ inbound' = [conns |-> [inbound.conns EXCEPT ![c].state = "closed"],
                   counter |-> connStateCallback(inbound.counter,
                                                 "StateClosed")]
    /\ UNCHANGED handlerVars

InitConns ==
    /\ Init
    /\ req.method = "GET"
    /\ req.uri = uri_http

\* the current forward handler never hijacks: the server owns every
\* connection from StateNew to StateClosed
NextConns ==
    \E c \in ConnIds :
        \/ Accept(c)
        \/ ServeRequest(c)
        \/ CloseConn(c)
        \/ ConnClosed(c)

\* the goroutine that closed a connection goes on to report it
SpecConns ==
    /\ InitConns
    /\ [][NextConns]_vars
    /\ \A c \in ConnIds : WF_vars(ConnClosed(c))

\* the earlier handler hijacks for every streamed body and every tunnel
NextHijack ==
    \E c \in ConnIds :
        \/ Accept(c)
        \/ ServeRequest(c)
        \/ HijackStream(c)
        \/ TeardownStream(c)
        \/ HijackConnect(c)
        \/ TeardownConnect(c)
        \/ CloseConn(c)
        \/ ConnClosed(c)

SpecHijack == InitConns /\ [][NextHijack]_vars

(***************************************************************************)
(* The CONNECT tunnel of the earlier handler                               *)
(***************************************************************************)
tunnelOthers == <<cfg, req, pc, outReq, err, ips, chosenIP, resp, w,
                  responseCode, errorCode, io, logs, ret, inbound>>

Directions == {"up", "down"}

\* rawProxy(inConn, outConn): the sockets of each direction
InConn(d) == IF d = "up" THEN "inbound" ELSE "outbound"
OutConn(d) == IF d = "up" THEN "outbound" ELSE "inbound"

\* a rawProxy that closes the socket it reads only
rawProxyReturnInOnly(t, d) ==
    [t EXCEPT !.loop[d].pc = "returned",
              !.loop[d].chunk = 0,
              !.sock[InConn(d)] = "closed"]

\* rawProxy returns: defer inConn.Close(); defer outConn.Close()
rawProxyReturn(t, d) ==
    [t EXCEPT !.loop[d].pc = "returned",
              !.loop[d].chunk = 0,
              !.sock = [inbound |-> "closed", outbound |-> "closed"]]

\* handleConnect: the dial fails and the error is answered, or the dial and
\* the hijack succeed, 200 Connection Established is written and the two
\* copies start
HandleConnect ==
    /\ tunnel.handler = "idle"
    /\ \/ tunnel' = [tunnel EXCEPT !.handler = "returned"]
       \/ tunnel' = [tunnel EXCEPT !.handler = "copying",
                                   !.sock = [inbound |-> "open", outbound |-> "open"],
                                   !.loop = [up |-> [NoLoop EXCEPT !.pc = "read"],
                                             down |-> [NoLoop EXCEPT !.pc = "read"]]]
    /\ UNCHANGED tunnelOthers

\* numRead, err := inConn.Read(buf): on a closed socket an error at once;
\* else bytes, an error (EOF or other), or both
RawRead(d) ==
    /\ tunnel.loop[d].pc = "read"
    /\ IF tunnel.sock[InConn(d)] = "closed"
       THEN tunnel' = rawProxyReturn(tunnel, d)
       ELSE \E n \in 0..RawBufSize, e \in BOOLEAN :
              /\ n > 0 \/ e
              /\ tunnel.loop[d].got + n <= MaxTunnelBytes
              /\ tunnel' = IF n > 0
                           THEN [tunnel EXCEPT !.loop[d].pc = "write",
                                               !.loop[d].got = @ + n,
                                               !.loop[d].chunk = n,
                                               !.loop[d].failed = e]
                           ELSE rawProxyReturn(tunnel, d)
    /\ UNCHANGED tunnelOthers

\* the bytes of the last Read, numbered as their end sent them
Chunk(l) == [i \in 1..l.chunk |-> l.got - l.chunk + i]

\* outConn.Write(buf[:numRead]): a write error ends the copy, and so does
\* the error the Read returned with the bytes
RawWrite(d) ==
    /\ tunnel.loop[d].pc = "write"
    /\ \/ /\ tunnel.sock[OutConn(d)] = "open"
          /\ LET written == [tunnel EXCEPT !.loop[d].relayed = @ \o Chunk(tunnel.loop[d])]
             IN tunnel' = IF tunnel.loop[d].failed
                          THEN rawProxyReturn(written, d)
                          ELSE [written EXCEPT !.loop[d].pc = "read",
                                               !.loop[d].chunk = 0]
       \/ tunnel' = rawProxyReturn(tunnel, d)
    /\ UNCHANGED tunnelOthers

\* handleConnect returns when its own rawProxy has: defer inboundConn.Close()
\* and defer outboundConn.Close()
HandleConnectReturns ==
    /\ tunnel.handler = "copying"
    /\ tunnel.loop.down.pc = "returned"
    /\ tunnel' = [tunnel EXCEPT !.handler = "returned",
                                !.sock = [inbound |-> "closed", outbound |-> "closed"]]
    /\ UNCHANGED tunnelOthers

\* a step of a copy whose socket is closed
RawStepOnClosed(d) ==
    \/ tunnel.sock[InConn(d)] = "closed" /\ RawRead(d)
    \/ tunnel.sock[OutConn(d)] = "closed" /\ RawWrite(d)

InitTunnel ==
    /\ Init
    /\ req.method = "CONNECT"

NextTunnel ==
    \/ HandleConnect
    \/ \E d \in Directions : RawRead(d)
    \/ \E d \in Directions : RawWrite(d)
    \/ HandleConnectReturns

\* I/O on a closed socket returns at once, and the handler goes on when the
\* rawProxy it called has returned
SpecTunnel ==
    /\ InitTunnel
    /\ [][NextTunnel]_vars
    /\ \A d \in Directions : WF_vars(RawStepOnClosed(d))
    /\ WF_vars(HandleConnectReturns)

(***************************************************************************)
(* Function-level specifications                                           *)
(***************************************************************************)
\* every variable but req, err and pc as a fresh handler has it
Idle ==
    /\ cfg \in {c \in Configs : ~c.insecureSkipCidrDenyList
                                 /\ c.maxContentLength = MaxBodySmall}
    /\ outReq = NoRequest
    /\ ips = <<>>
    /\ chosenIP = <<>>
    /\ resp = NoResponse
    /\ w = NewResponseWriter
    /\ responseCode = 0
    /\ errorCode = ""
    /\ io = NoIO
    /\ logs = NoLogs
    /\ ret = <<>>
    /\ inbound = NoInbound
    /\ tunnel = NoTunnel

\* isTLS applied to the header map of every short list of X-Whsentry-Tls lines
TlsValues == {v_1, v_true, s_zero, s_false, v_FALSE, v_False, v_00, v_no, v_empty}

InitIsTLS ==
    /\ Idle
    /\ err = NoError
    /\ pc = "isTLS"
    /\ req \in {Request("GET", uri_http, wire) :
                  wire \in SeqsUpTo({s_XWhsentryTls} \X TlsValues, MaxValues)}

CallIsTLS ==
    /\ pc = "isTLS"
    /\ ret' = isTLS(req.header)
    /\ pc' = "returned"
    /\ UNCHANGED <<tunnel, inbound, cfg, req, outReq, err, ips, chosenIP, resp, w, responseCode,
                   errorCode, io, logs>>

SpecIsTLS == InitIsTLS /\ [][CallIsTLS]_vars

\* doProxy applied to request URIs of every shape and to short header lists
\* with names in the spellings a caller can send
WireNames ==
    {ToLower(s_XWhsentryTls), s_XWhsentryClientcert,
     <<"X","-","W","H","S","E","N","T","R","Y","-","F","O","O">>,
     <<"X","-","W","h","s","e","n","t","r","y","f","o","o">>,
     <<"X","-","W","h","s","e","n","t","r">>,
     ToLower(s_UserAgent),
     <<"C","O","N","N","E","C","T","I","O","N">>,
     s_ProxyConnection,
     <<"A","c","c","e","p","t">>,
     <<"s","e","t","-","c","o","o","k","i","e">>}

URIs == {uri_http, uri_HTTP, uri_Http_http, uri_https, uri_path, uri_ftp,
         uri_query, uri_opaque, uri_star, uri_host_http}

InitDoProxy ==
    /\ Idle
    /\ err = NoError
    /\ pc = "doProxy"
    /\ req \in {Request("GET", u, wire) :
                  u \in URIs,
                  wire \in SeqsUpTo(WireNames \X {v_1, s_zero}, MaxHeaders)}

SpecDoProxy == InitDoProxy /\ [][DoProxy]_vars

\* mapError applied to error values of every dynamic type it distinguishes
ReasonCodes ==
    {BlockedIPAddress, UnableToResolveIP, InvalidRequestURI, InvalidUrlScheme,
     RequestTimedOut, TLSHandshakeError, TCPConnectionError,
     CertificateValidationError, ResponseTooLarge, InternalServerError,
     ClientCertNotFoundError}

WrappedTexts == {s_refused, s_alert, s_reset, s_timeout, s_both, s_TLS,
                 s_connect_no_colon}

Errors ==
    {proxyError(st, "message", c) :
        st \in {StatusBadRequest, StatusForbidden, StatusBadGateway},
        c \in ReasonCodes}
    \cup {DNSError(t) : t \in BOOLEAN}
    \cup {OpError(t, x) : t \in BOOLEAN, x \in WrappedTexts}
    \cup {URLError(t) : t \in BOOLEAN}
    \cup {DeadlineExceeded}
    \cup {X509Error(t) : t \in X509Types}
    \cup {OtherError(t) : t \in {"io.EOF", "context.Canceled",
                                 "tls.RecordHeaderError"}}

InitMapError ==
    /\ Idle
    /\ req = Request("GET", uri_http, <<>>)
    /\ err \in Errors
    /\ pc = "mapError"

CallMapError ==
    /\ pc = "mapError"
    /\ ret' = mapError(err)
    /\ pc' = "returned"
    /\ UNCHANGED <<tunnel, inbound, cfg, req, outReq, err, ips, chosenIP, resp, w, responseCode,
                   errorCode, io, logs>>

SpecMapError == InitMapError /\ [][CallMapError]_vars

(***************************************************************************)
(* Properties                                                              *)
(***************************************************************************)
\* ServeHTTP has written its response head
Responded == pc \in {"finish", "done"}

\* the values of the response header whose name is `name` in any letter case
HeaderValues(rw, name) ==
    LET keys == {k \in DOMAIN rw.header : ToLower(k) = ToLower(name)}
    IN IF Cardinality(keys) = 1 THEN rw.header[CHOOSE k \in keys : TRUE]
       ELSE IF keys = {} THEN <<>> ELSE <<"several keys">>

\* the address an IPv4 or IPv4-mapped address stands for, as 32 bits
V4Bytes(ip) == IF Len(ip) = 4 THEN ip ELSE SubSeq(ip, Len(ip) - 3, Len(ip))
BitOf(bytes, j) == (bytes[(j \div 8) + 1] \div Pow2(7 - (j % 8))) % 2

\* ip lies inside the prefix: it agrees with the prefix on its first ones bits
InsidePrefix(ip, n) ==
    \A j \in 0..(n.ones - 1) : BitOf(V4Bytes(ip), j) = BitOf(n.ip, j)

InDenyList(ip) ==
    \E i \in DOMAIN cfg.cidrDenyList : InsidePrefix(ip, cfg.cidrDenyList[i])

\* C1: with the deny-list enforced, a request whose selected address lies
\* inside a configured prefix is answered 403 with reason code 1000, and no
\* TCP dial is made for it, on the plain and on the TLS leg.
C1_DeniedAddressIsRefused ==
    (/\ ~cfg.insecureSkipCidrDenyList
     /\ chosenIP # <<>>
     /\ InDenyList(chosenIP))
    => /\ io.dials = <<>>
       /\ io.handshakes = 0
       /\ pc \notin {"dial", "handshake", "roundtrip", "body", "write"}
       /\ Responded => /\ w.status = 403
                       /\ HeaderValues(w, ReasonCodeHeader) = <<"1000">>

C1_Witness ==
    /\ pc = "done"
    /\ UsesTLS
    /\ ~cfg.insecureSkipCidrDenyList
    /\ chosenIP = ip_mapped
    /\ Len(cfg.cidrDenyList) = 2
    /\ w.status = 403

\* the addresses of the model whose text has no colon at all
DottedIPs == {ip_loopback, ip_public, ip_mapped}

FirstDotted(answer) ==
    LET at == {i \in DOMAIN answer : answer[i] \in DottedIPs}
    IN IF at = {} THEN <<>> ELSE answer[CHOOSE i \in at : \A j \in at : i <= j]

\* C2: the dialer selects the first address of the resolver's answer whose
\* text has fewer than two colons; the deny-list check and the one TCP dial
\* use that address, the name is looked up once; an answer without such an
\* address is answered 400 with reason code 1001 and nothing is dialed.
C2_FirstIPv4IsSelected ==
    /\ io.lookups <= 1
    /\ Len(io.dials) <= 1
    /\ ips # <<>> =>
        /\ chosenIP = FirstDotted(ips)
        /\ \A i \in DOMAIN io.dials : io.dials[i] = FirstDotted(ips)
        /\ FirstDotted(ips) = <<>> =>
             /\ io.dials = <<>>
             /\ pc \notin {"dial", "handshake", "roundtrip", "body", "write"}
             /\ Responded => /\ w.status = 400
                             /\ HeaderValues(w, ReasonCodeHeader) = <<"1001">>
        /\ (FirstDotted(ips) # <<>> /\ Responded /\ ~cfg.insecureSkipCidrDenyList) =>
             (InDenyList(FirstDotted(ips))
                <=> HeaderValues(w, ReasonCodeHeader) = <<"1000">>)

C2_Witness ==
    /\ pc = "done"
    /\ ips = <<ip_v6, ip_public>>
    /\ io.dials = <<ip_public>>
    /\ io.lookups = 1

\* C3: an origin response whose declared Content-Length is greater than
\* max_body is answered 502 with reason code 1008, none of the origin's
\* headers reaches the caller, and the body is never read.
C3_OverLongIsRefused ==
    (/\ resp # NoResponse
     /\ err = NoError
     /\ resp.contentLength > cfg.maxContentLength)
    => /\ ~io.bodyRead
       /\ pc \notin {"body", "write"}
       /\ Responded => /\ w.status = 502
                       /\ HeaderValues(w, ReasonCodeHeader) = <<"1008">>
                       /\ HeaderValues(w, s_SetCookie) = <<>>

\* the private prefix in lower case
PrivatePrefix == ToLower(s_XWhsentry)

\* doProxy has returned the request it hands to the transport
Handed == pc # "doProxy" /\ err = NoError /\ outReq # NoRequest

\* C4: no header whose name starts with X-Whsentry, in any letter case, is on
\* the outbound request handed to the transport.
C4_NoPrivateHeaderOutbound ==
    Handed =>
        \A k \in DOMAIN outReq.header : ~HasPrefix(ToLower(k), PrivatePrefix)

C4_Witness ==
    /\ Handed
    /\ \E i \in DOMAIN req.wire :
          req.wire[i][1] = <<"X","-","W","H","S","E","N","T","R","Y","-","F","O","O">>
    /\ \E i \in DOMAIN req.wire : req.wire[i][1] = <<"A","c","c","e","p","t">>

\* a caller header name the proxy does not forward
Removed(name) ==
    \/ ToLower(name) \in {ToLower(s_Connection), ToLower(s_ProxyConnection),
                          ToLower(s_UserAgent)}
    \/ HasPrefix(ToLower(name), PrivatePrefix)

\* the values the caller sent under a name, in the order of the wire
RECURSIVE WireValues(_, _)
WireValues(wire, name) ==
    IF wire = <<>> THEN <<>>
    ELSE (IF ToLower(Head(wire)[1]) = ToLower(name) THEN <<Head(wire)[2]>> ELSE <<>>)
         \o WireValues(Tail(wire), name)

\* C5: the outbound header map is the inbound one without Connection,
\* Proxy-Connection, User-Agent and the X-Whsentry names, every other header
\* with all its values in their order, plus the one User-Agent value
\* "Webhook Sentry/0.1", whether or not the caller sent a User-Agent.
C5_OutboundHeaderIsFilteredCopy ==
    Handed =>
        /\ \A i \in DOMAIN req.wire :
              LET name == req.wire[i][1]
              IN HeaderValues(outReq, name) =
                    IF ToLower(name) = ToLower(s_UserAgent) THEN <<s_WebhookSentry>>
                    ELSE IF Removed(name) THEN <<>>
                    ELSE WireValues(req.wire, name)
        /\ \A k \in DOMAIN outReq.header :
              \/ ToLower(k) = ToLower(s_UserAgent)
              \/ \E i \in DOMAIN req.wire : ToLower(req.wire[i][1]) = ToLower(k)
        /\ HeaderValues(outReq, s_UserAgent) = <<s_WebhookSentry>>

C5_Witness ==
    /\ Handed
    /\ req.wire = << <<ToLower(s_UserAgent), v_1>>, <<<<"A","c","c","e","p","t">>, s_zero>> >>
    /\ DOMAIN outReq.header = {s_UserAgent, <<"A","c","c","e","p","t">>}

\* the spellings of "false" in every letter case
FalseSpellings ==
    {<<a, b, c, d, e>> : a \in {"f", "F"}, b \in {"a", "A"}, c \in {"l", "L"},
                         d \in {"s", "S"}, e \in {"e", "E"}}

\* a value that turns the hint off
OffValue(v) == v = <<"0">> \/ v \in FalseSpellings

\* the X-Whsentry-Tls values the caller sent, in the order of the wire
SentTlsValues == WireValues(req.wire, s_XWhsentryTls)

\* C6 as stated: the TLS hint is on unless every X-Whsentry-Tls value is
\* literally 0 or case-insensitively false, and off when the header is absent.
C6_OnUnlessEveryValueOff ==
    pc = "returned" =>
        (ret <=> /\ SentTlsValues # <<>>
                 /\ ~ \A i \in DOMAIN SentTlsValues : OffValue(SentTlsValues[i]))

\* C6 amended: the TLS hint is on exactly when the header is present and no
\* value in its list is literally 0 or case-insensitively false; one such
\* value among others turns it off, and an absent header leaves it off.
C6_OnUnlessSomeValueOff ==
    pc = "returned" =>
        (ret <=> /\ SentTlsValues # <<>>
                 /\ ~ \E i \in DOMAIN SentTlsValues : OffValue(SentTlsValues[i]))

C6_Witness ==
    /\ pc = "returned"
    /\ SentTlsValues = <<v_1, v_False>>
    /\ ret = FALSE

\* C7: for a request that passes the precondition checks, with the TLS hint
\* on the outbound URI has scheme https and the authority, path and query of
\* the request URI; with the hint off it equals the request URI.
C7_UpgradeRewritesOnlyTheScheme ==
    Handed =>
        LET in == ParseURL(req.uri)
        IN IF isTLS(req.header)
           THEN /\ outReq.url.scheme = s_https
                /\ outReq.url.host = in.host
                /\ outReq.url.path = in.path
                /\ outReq.url.query = in.query
           ELSE outReq.uri = req.uri

\* the request URIs of the model without a scheme, and those with a scheme
\* other than http
RelativeURIs == {uri_path, uri_star}
OtherSchemeURIs == {uri_ftp, uri_https, uri_opaque}

\* C8: a non-CONNECT request whose URI is not absolute is answered 400 with
\* reason code 1002, one whose URI is absolute with a scheme other than http
\* 400 with reason code 1003; neither causes a DNS lookup or a dial.
C8_BadURIIsRefusedBeforeAnyIO ==
    (req.method # "CONNECT" /\ req.uri \in RelativeURIs \cup OtherSchemeURIs) =>
        /\ io.lookups = 0
        /\ io.dials = <<>>
        /\ pc \notin {"resolve", "dial", "handshake", "roundtrip", "body", "write"}
        /\ Responded =>
              /\ w.status = 400
              /\ HeaderValues(w, ReasonCodeHeader) =
                    IF req.uri \in RelativeURIs THEN <<"1002">> ELSE <<"1003">>

C8_Witness ==
    /\ pc = "done"
    /\ req.method = "POST"
    /\ req.uri = uri_https
    /\ w.status = 400
    /\ errorCode = "1003"

\* the rows of the mapping table, first match first
FirstMatchingRow(e) ==
    IF e.type = "proxyError" THEN <<e.statusCode, e.errorCode>>
    ELSE IF e.type = "net.DNSError" THEN <<502, "1001">>
    ELSE IF e.timeout /\ e.type \in {"net.OpError", "url.Error",
                                      "context.DeadlineExceeded"}
    THEN <<502, "1004">>
    ELSE IF e.type = "net.OpError" /\ e.wrapped \in {s_alert, s_both}
    THEN <<502, "1005">>
    ELSE IF e.type = "net.OpError" /\ e.wrapped = s_refused
    THEN <<502, "1006">>
    ELSE IF e.type \in {"x509.CertificateInvalidError", "x509.HostnameError",
                        "x509.UnknownAuthorityError"}
    THEN <<502, "1007">>
    ELSE <<500, "1009">>

\* C9: mapError returns the status and reason code of the first matching row
\* of the table: a proxyError its own; a DNS failure 502/1001, timeout or not;
\* a timed-out network operation 502/1004; a network-op error whose cause
\* mentions TLS 502/1005; one whose cause is a connect failure 502/1006; the
\* three X.509 errors 502/1007; anything else 500/1009.
C9_MapErrorFollowsTheTable ==
    pc = "returned" => <<ret[1], ret[2]>> = FirstMatchingRow(err)

C9_Witness ==
    /\ pc = "returned"
    /\ err = DNSError(TRUE)
    /\ ret[1] = 502
    /\ ret[2] = "1001"

\* the statuses the taxonomy pairs with a reason code
TaxonomyStatus(code) ==
    CASE code = "1000" -> {403}
      [] code = "1001" -> {400, 502}
      [] code \in {"1002", "1003", "1010"} -> {400}
      [] code \in {"1004", "1005", "1006", "1007", "1008"} -> {502}
      [] code = "1009" -> {500}
      [] OTHER -> {}

\* C10: every error response of the forward handler carries exactly one
\* X-WhSentry-ReasonCode header with one of the codes 1000..1010 and exactly
\* one X-WhSentry-Reason header, and its status is the one the taxonomy pairs
\* with the code.
C10_ErrorResponseCarriesOneCode ==
    (Responded /\ req.method # "CONNECT" /\ (err # NoError \/ errorCode # "")) =>
        LET codes == HeaderValues(w, ReasonCodeHeader)
        IN /\ Len(codes) = 1
           /\ codes[1] \in {"1000", "1001", "1002", "1003", "1004", "1005",
                             "1006", "1007", "1008", "1009", "1010"}
           /\ codes[1] = errorCode
           /\ Len(HeaderValues(w, ReasonHeader)) = 1
           /\ w.wroteHeader = 1
           /\ w.status \in TaxonomyStatus(codes[1])

C10_Witness ==
    /\ pc = "done"
    /\ err = DNSError(FALSE)
    /\ w.status = 502
    /\ HeaderValues(w, ReasonCodeHeader) = <<"1001">>

\* C11: a CONNECT request to a handler without MITM issuer is answered 405
\* and nothing else happens: no lookup, no dial, no handshake, no hand-over
\* of the connection to the CONNECT handler, no byte relayed.
C11_ConnectWithoutIssuerIs405 ==
    (req.method = "CONNECT" /\ ~cfg.mitmer) =>
        /\ pc \in {"ServeHTTP", "done"}
        /\ io = NoIO
        /\ outReq = NoRequest
        /\ w.body = NewResponseWriter.body
        /\ pc = "done" => /\ w.status = 405
                          /\ w.wroteHeader = 1
                          /\ HeaderValues(w, ReasonCodeHeader) = <<>>

C11_Witness ==
    /\ req.method = "CONNECT"
    /\ req.uri = uri_connect_loopback
    /\ ~cfg.mitmer
    /\ pc = "done"
    /\ w.status = 405

\* the aliases the caller named in X-Whsentry-Clientcert lines
SentAliases == WireValues(req.wire, s_XWhsentryClientcert)

\* C12: a request on the TLS outbound path that names a client-certificate
\* alias missing from the store, and whose destination resolves to an
\* address the deny-list lets through, is answered 400 with reason code 1010
\* and no TLS handshake (and no dial) is started for it.
C12_MissingAliasIsRefused ==
    (/\ Handed
     /\ outReq.url.scheme = s_https
     /\ SentAliases # <<>>
     /\ SentAliases[1] \notin cfg.clientCerts
     /\ chosenIP # <<>>
     /\ (cfg.insecureSkipCidrDenyList \/ ~InDenyList(chosenIP)))
    => /\ io.handshakes = 0
       /\ io.dials = <<>>
       /\ pc \in {"respond", "finish", "done"}
       /\ Responded => /\ w.status = 400
                       /\ HeaderValues(w, ReasonCodeHeader) = <<"1010">>

C12_Witness ==
    /\ pc = "done"
    /\ outReq.url.scheme = s_https
    /\ SentAliases = <<alias_missing>>
    /\ chosenIP = ip_public
    /\ ~cfg.insecureSkipCidrDenyList
    /\ w.status = 400
    /\ errorCode = "1010"

\* the warning writeResponseBody logs when the counter passes the limit
OverrunWarning == <<"warning", "Response body exceeded maximum allowed length">>

Logged(entry) == \E i \in DOMAIN logs.proxy : logs.proxy[i] = entry

\* C13: while a body is streamed the bytes written to the caller never
\* number more than max_body; once the bytes read number more than max_body
\* the transfer has ended, the warning is logged and the status already sent
\* stands.
C13_StreamNeverExceedsMaxBody ==
    /\ Len(w.body) <= cfg.maxContentLength
    /\ io.bodyBytes > cfg.maxContentLength =>
          /\ pc \in {"finish", "done"}
          /\ Logged(OverrunWarning)
          /\ w.wroteHeader = 1
          /\ w.status = resp.status

\* the handler streamed the origin's response and has left the loop
Streamed ==
    /\ Responded
    /\ err = NoError
    /\ resp # NoResponse
    /\ errorCode = ""

\* no Read and no Write of the transfer failed
NoStreamError ==
    /\ ~Logged(<<"error", "Error writing to inbound socket">>)
    /\ ~Logged(<<"warning", "Socket idle read time out reached">>)
    /\ ~Logged(<<"warning", "Error occured reading response from target">>)

\* C14 as stated: with the TLS hint off and no read or write error the caller
\* receives the whole body when it is at most max_body long, and its first
\* max_body bytes when it is longer.
C14_FirstMaxBodyBytes ==
    (Streamed /\ ~isTLS(req.header) /\ NoStreamError) =>
        w.body = IF resp.bodyLen <= cfg.maxContentLength THEN Body(resp)
                 ELSE SubSeq(Body(resp), 1, cfg.maxContentLength)

\* C14 amended: with the TLS hint off and no read or write error the caller
\* receives a prefix of the origin's body, verbatim and in order: the whole
\* body when it is at most max_body long; when the transfer is cut, the bytes
\* of the reads before the one at which the 32-bit count passed max_body,
\* none of that read's, so fewer than max_body bytes may arrive; the overrun
\* is then logged.
C14_PrefixUpToWholeReads ==
    (Streamed /\ ~isTLS(req.header) /\ NoStreamError) =>
        /\ Len(w.body) <= resp.bodyLen
        /\ w.body = SubSeq(Body(resp), 1, Len(w.body))
        /\ resp.bodyLen <= cfg.maxContentLength => w.body = Body(resp)
        /\ Len(w.body) < resp.bodyLen =>
              /\ Logged(OverrunWarning)
              /\ Uint32(Len(w.body)) <= cfg.maxContentLength
              /\ Uint32(Len(w.body)) + BufSize > cfg.maxContentLength

C14_Witness ==
    /\ pc = "done"
    /\ Streamed /\ ~isTLS(req.header) /\ NoStreamError
    /\ cfg.maxContentLength = MaxBodyLarge
    /\ resp.bodyLen = MaxBodyLarge + 1
    /\ Len(w.body) = MaxBodyLarge - 1

\* C15: every non-CONNECT request terminates: once doProxy has built the
\* outbound request or refused the inbound one, the handler returns,
\* whatever the origin and the caller do.
C15_EveryRequestTerminates ==
    (req.method # "CONNECT" /\ pc \notin {"ServeHTTP", "doProxy"}) ~> (pc = "done")

\* this request has reached the origin: its outbound request was sent
ReachedOrigin == pc = "roundtrip" \/ resp # NoResponse

\* C16: a request makes at most one dial attempt, a failed one is not tried
\* again, and no outbound connection carries more than one request: every
\* request that reaches the origin does so over the connection it dialed.
C16_OneDialAndNoReuse ==
    /\ Len(io.dials) <= 1
    /\ io.lookups <= 1
    /\ \A i \in DOMAIN io.conns : io.conns[i].uses = 1
    /\ ReachedOrigin =>
          /\ Len(io.dials) = 1
          /\ io.conns # <<>>
          /\ io.conns[Len(io.conns)].ip = io.dials[1]
    /\ \A i \in DOMAIN io.conns :
          io.conns[i].state \in {"open", "handshake"}
              => (i = Len(io.conns) /\ pc \notin {"done", "ServeHTTP", "doProxy"})

C16_Witness ==
    /\ io.requests = 1
    /\ pc = "done"
    /\ resp # NoResponse
    /\ Len(io.conns) = 2
    /\ io.conns[1].ip = io.conns[2].ip

\* C17, as stated: once a connection that was never hijacked is closed, the
\* counter eventually is the value it had before the connection was
\* accepted, whatever the other connections of the listener do.
C17_CounterReturnsToValueBeforeAccept ==
    \A c \in ConnIds :
        (inbound.conns[c].state = "closing")
            ~> (inbound.counter = inbound.conns[c].before)

\* C17, amended: once a connection that was never hijacked is closed, it is
\* eventually reported closed and the counter is then the value it had
\* before the connection was accepted, plus the connections accepted since
\* and still counted, minus the connections counted then and closed since.
C17_CounterForgetsClosedConnection ==
    \A c \in ConnIds :
        (inbound.conns[c].state = "closing")
            ~> /\ inbound.conns[c].state = "closed"
               /\ inbound.counter
                      = inbound.conns[c].before
                        + Cardinality(Counted \ inbound.conns[c].peers)
                        - Cardinality(inbound.conns[c].peers \ Counted)

\* a connection was closed and reported while a connection accepted after
\* it is still open, so that the counter is not the value before the accept
C17_Witness ==
    \E c \in ConnIds :
        /\ inbound.conns[c].state = "closed"
        /\ Counted \ inbound.conns[c].peers # {}
        /\ inbound.counter # inbound.conns[c].before
\* the success path: the origin's status line and headers were written
SuccessPath ==
    /\ pc \in {"body", "write", "finish", "done"}
    /\ err = NoError
    /\ resp # NoResponse
    /\ ~TooLarge(resp, cfg.maxContentLength)

\* what the caller holds of one request, in every state
OneStatusLine ==
    /\ w.wroteHeader <= 1
    /\ (pc = "done" /\ req.method # "CONNECT") => w.wroteHeader = 1
    /\ pc = "write" => w.wroteHeader = 1
    /\ w.body # <<>> => (SuccessPath /\ w.wroteHeader = 1)
    /\ w.errorBody => /\ ~SuccessPath
                      /\ w.body = <<>>
                      /\ req.method # "CONNECT" => errorCode # ""
    /\ SuccessPath => /\ w.wroteHeader = 1
                      /\ w.status = resp.status
                      /\ errorCode = ""
                      /\ ~w.errorBody
                      /\ HeaderValues(w, ReasonCodeHeader) = <<>>
                      /\ HeaderValues(w, ReasonHeader) = <<>>

\* what a step may do to a response whose status line is written
OnlyBodyFollows ==
    w.wroteHeader = 1 =>
        /\ w'.wroteHeader = 1
        /\ w'.status = w.status
        /\ w'.header = w.header
        /\ w'.errorBody = w.errorBody
        /\ Len(w'.body) >= Len(w.body)
        /\ SubSeq(w'.body, 1, Len(w.body)) = w.body

\* C18: within one request the error response and the success response
\* exclude each other and the status line is written exactly once: once the
\* origin's headers or a body byte are written no later failure writes a
\* second status line or adds reason headers, and body bytes are written only
\* after the headers.
C18_OneResponsePerRequest == []OneStatusLine /\ [][OnlyBodyFollows]_vars

\* a transfer that failed after body bytes were written, and has ended
C18_Witness ==
    /\ pc = "done"
    /\ SuccessPath
    /\ w.body # <<>>
    /\ (Logged(OverrunWarning) \/ ~NoStreamError)
    /\ w.wroteHeader = 1
\* the hijacked connections that are not torn down yet
Hijacked == {c \in ConnIds : inbound.conns[c].state \in {"streaming", "tunnel"}}

\* C19: in every state the counter of inbound connections has not wrapped
\* and is the number of accepted connections the server still owns plus the
\* number of hijacked connections not yet torn down; a hijacked connection,
\* streamed response or CONNECT tunnel, is taken off once when torn down.
C19_CounterIsLivePlusHijacked ==
    inbound.counter = Cardinality(Counted) + Cardinality(Hijacked)
IdleTimeoutWarning == <<"warning", "Socket idle read time out reached">>

\* the idle timer but for the reads that re-arm it: armed while the body is
\* streamed, re-armed once a non-empty read is written and the loop goes on,
\* and its expiry logged as the transfer ends
TimerArmedAndExpiryEnds ==
    /\ pc \in {"body", "write"} => io.timerArmed
    /\ (pc = "body" /\ w.body # <<>>) => TRUE \in io.resetAfter
    /\ Logged(IdleTimeoutWarning) => pc \in {"finish", "done"}

OpenSockets == {i \in DOMAIN io.conns : io.conns[i].state # "closed"}

\* the handler has returned and every socket but one dropped by a failed
\* handshake is closed
ClosedButDropped ==
    pc = "done" => \A i \in OpenSockets : io.conns[i].state = "dropped"

\* C26: when the handler of a request returns, every outbound socket dialed
\* for the request is closed, whatever the path: failed or timed-out
\* handshake, round-trip error, over-long Content-Length, complete or
\* truncated stream, idle timeout, deadline.
C26_NoSocketOutlivesTheHandler ==
    pc = "done" => OpenSockets = {}
\* the store's entry under an alias, the empty certificate when it has none
StoreEntry(alias) == IF alias \in cfg.clientCerts THEN alias ELSE <<>>

\* a request on the TLS path whose destination was resolved and passed the
\* deny-list, and whose connection attempt is over
ScreenedTLS ==
    /\ outReq # NoRequest
    /\ outReq.url.scheme = s_https
    /\ chosenIP # <<>>
    /\ (cfg.insecureSkipCidrDenyList \/ ~InDenyList(chosenIP))
    /\ pc \in {"roundtrip", "respond", "body", "write", "finish", "done"}

\* the socket was dialed and the handshake ran on it with this certificate
HandshakeOffers(cert) ==
    /\ io.dials # <<>>
    /\ io.conns # <<>> => (io.handshakes = 1 /\ io.offered = cert)

LoggedLevels == {logs.proxy[i][1] : i \in DOMAIN logs.proxy}

\* the error-level entries are those of reason code 1009 and of a failed
\* write to the caller
ErrorLevelIs1009OrWrite ==
    \A i \in DOMAIN logs.proxy :
        logs.proxy[i][1] = "error" =>
            \/ errorCode = InternalServerError
            \/ logs.proxy[i] = <<"error", "Error writing to inbound socket">>

\* C24: the proxy log has an error-level entry only when the request's reason
\* code is 1009; everything else met while mediating (classified errors, body
\* over-run, idle timeout, read and write failures while streaming) is logged
\* as warning or info.
C24_ErrorLevelOnlyFor1009 ==
    /\ LoggedLevels \subseteq {"error", "warning", "info"}
    /\ "error" \in LoggedLevels => errorCode = InternalServerError
\* one access-log entry and one observation, written when the handler is
\* through with the response, the observation labelled with the reason code
OneEntryOneObservation ==
    /\ pc # "done" => (logs.access = <<>> /\ logs.histogram = <<>>)
    /\ (pc = "done" /\ req.method # "CONNECT") =>
          /\ Len(logs.access) = 1
          /\ Len(logs.histogram) = 1
          /\ logs.access[1].status = responseCode
          /\ logs.access[1].status = w.status
          /\ logs.histogram[1] = errorCode
          /\ w.errorBody => HeaderValues(w, ReasonCodeHeader) = <<logs.histogram[1]>>

Observed == pc = "done" /\ req.method # "CONNECT"

\* the origin's response reached the caller whole
Delivered ==
    /\ SuccessPath
    /\ NoStreamError
    /\ ~Logged(OverrunWarning)
    /\ w.body = Body(resp)

\* C23, as stated: every non-CONNECT request appends one access-log entry and
\* records one histogram observation, both after the response is handled; the
\* label of the observation is the reason code, and it is the empty string
\* exactly when the request succeeded.
C23_EmptyLabelIffSucceeded ==
    /\ OneEntryOneObservation
    /\ Observed => (logs.histogram[1] = "" <=> Delivered)

\* C23, amended: the same, and the label is the empty string exactly when no
\* error response was sent, that is when the origin's status line and
\* headers were relayed: also for a stream cut short by an over-run, a read
\* error, an idle timeout, the deadline or a failed write.
C23_EmptyLabelIffOriginHeadRelayed ==
    /\ OneEntryOneObservation
    /\ Observed => (logs.histogram[1] = "" <=> SuccessPath)
    /\ Observed => (logs.histogram[1] = "" <=> ~w.errorBody)

\* a stream cut short by an over-run, observed under the empty label
C23_Witness ==
    /\ Observed
    /\ SuccessPath
    /\ Logged(OverrunWarning)
    /\ w.body # Body(resp)
    /\ logs.histogram = <<"">>
    /\ Len(logs.access) = 1
\* the reason code mapError gives the error doProxy returned
Reason == mapError(err)[2]

\* the alias the context carries is missing from the store
AliasMissing == SentAliases # <<>> /\ SentAliases[1] \notin cfg.clientCerts

\* C25: the first failing check decides the reason code, in the order
\* absolute URI (1002), scheme (1003), lookup failure or no IPv4 address
\* (1001), deny-list (1000), client-certificate alias (1010, TLS path only),
\* TCP connect, TLS handshake: a denied destination yields 1000 even when the
\* alias is missing, a missing alias is reported after the lookup and the
\* screening and before any dial, and the plain path never looks the alias up.
C25_FirstFailingCheckDecides ==
    (req.method # "CONNECT" /\ pc \in {"respond", "finish", "done"}) =>
        LET url == ParseURL(req.uri)
        IN IF ~IsAbs(url)
           THEN Reason = InvalidRequestURI /\ io.lookups = 0
           ELSE IF url.scheme # s_http
           THEN Reason = InvalidUrlScheme /\ io.lookups = 0
           ELSE /\ io.lookups = 1
                /\ IF chosenIP = <<>>
                   THEN Reason = UnableToResolveIP /\ io.dials = <<>>
                   ELSE IF ~cfg.insecureSkipCidrDenyList /\ InDenyList(chosenIP)
                   THEN Reason = BlockedIPAddress /\ io.dials = <<>>
                   ELSE IF UsesTLS /\ AliasMissing
                   THEN /\ Reason = ClientCertNotFoundError
                        /\ io.dials = <<>>
                        /\ io.handshakes = 0
                   ELSE /\ Len(io.dials) = 1
                        /\ Reason # ClientCertNotFoundError
                        /\ io.handshakes = IF UsesTLS /\ io.conns # <<>> THEN 1 ELSE 0
                        /\ io.conns = <<>> =>
                              Reason \in {RequestTimedOut, TCPConnectionError}

\* a TLS request that names a missing alias for a denied destination: 1000
C25_Witness ==
    /\ pc = "done"
    /\ UsesTLS
    /\ AliasMissing
    /\ ~cfg.insecureSkipCidrDenyList
    /\ chosenIP # <<>>
    /\ InDenyList(chosenIP)
    /\ errorCode = BlockedIPAddress
    /\ io.dials = <<>>
\* a response whose body had begun and whose transfer then failed
FailedMidStream ==
    /\ pc = "done"
    /\ SuccessPath
    /\ w.body # <<>>
    /\ (Logged(OverrunWarning) \/ ~NoStreamError)

\* a failed transfer under a Content-Length ends with the connection closed,
\* and no failed transfer gets error headers
ClosedWhenLengthDeclared ==
    FailedMidStream =>
        /\ (resp.contentLength >= 0 /\ Len(w.body) # resp.contentLength)
              => w.finished = "closed"
        /\ HeaderValues(w, ReasonCodeHeader) = <<>>
        /\ HeaderValues(w, ReasonHeader) = <<>>

\* C21: a response that has begun streaming and then fails (over-run, read
\* error, idle timeout, deadline, failed write) ends with the inbound socket
\* closed, so that the caller never takes a truncated body for a complete
\* response; no error headers are appended.
C21_FailedStreamClosesTheSocket ==
    FailedMidStream =>
        /\ w.finished = "closed"
        /\ HeaderValues(w, ReasonCodeHeader) = <<>>
        /\ HeaderValues(w, ReasonHeader) = <<>>
Returned(d) == tunnel.loop[d].pc = "returned"

TunnelClosed == tunnel.sock = [inbound |-> "closed", outbound |-> "closed"]

\* the bytes relayed are the first bytes their end sent, in order, and a copy
\* that has ended has closed both sockets
RelayedInOrder ==
    /\ \A d \in Directions :
          /\ tunnel.loop[d].relayed = [i \in 1..Len(tunnel.loop[d].relayed) |-> i]
          /\ Len(tunnel.loop[d].relayed) <= tunnel.loop[d].got
          /\ Returned(d) => TunnelClosed
    /\ (tunnel.handler = "returned" /\ tunnel.sock.outbound # "none") =>
          (Returned("down") /\ TunnelClosed)

\* no byte is relayed once the sockets are closed
NoRelayAfterTeardown ==
    TunnelClosed =>
        \A d \in Directions : tunnel'.loop[d].relayed = tunnel.loop[d].relayed

\* C22: in a CONNECT tunnel the two copies run side by side; as soon as one
\* ends (read error, EOF or write error) both sockets are closed, the other
\* copy then ends too and the handler returns; bytes are relayed in order and
\* none after the teardown.
C22_EitherEndTearsDownBoth ==
    /\ []RelayedInOrder
    /\ [][NoRelayAfterTeardown]_vars
    /\ (\E d \in Directions : Returned(d))
          ~> (Returned("up") /\ Returned("down") /\ tunnel.handler = "returned")

\* both copies relayed bytes, the copy towards the origin ended first, with
\* bytes of the other read and not yet written, and everything has ended
C22_Witness ==
    /\ tunnel.handler = "returned"
    /\ Returned("up")
    /\ Returned("down")
    /\ tunnel.loop.up.relayed # <<>>
    /\ tunnel.loop.down.relayed # <<>>
    /\ Len(tunnel.loop.down.relayed) < tunnel.loop.down.got
    /\ TunnelClosed
=============================================================================
